---- MODULE Spec2Model ----
(***************************************************************************)
(* One call session of the voice bridge: the OpenAI event processor        *)
(* (OpenAIEventService), the callbacks the call session wires into it, the *)
(* carrier frame handlers and the session's teardown.                      *)
(*                                                                         *)
(* JavaScript values are encoded so that truthiness is kept:               *)
(*   - a missing/empty string (transcript, delta, item_id, callSid) is ""  *)
(*   - an unset responseStartTimestampTwilio is Null; the number 0 is a    *)
(*     set value that is nevertheless falsy, as in JavaScript.             *)
(***************************************************************************)
EXTENDS Integers, Sequences, FiniteSets, TLC

(* ------------------------------ bounds -------------------------------- *)

\* Number of inbound messages (carrier frames, model messages, socket
\* failures) one behaviour delivers to the session.
MaxEvents == 5

\* Number of inbound messages per behaviour under the fair specification.
MaxFairEvents == 3

\* Largest carrier media timestamp offered by the carrier; the carrier's
\* offsets never decrease within a stream.
MaxTs == 2

\* Number of inbound messages and mark sends per behaviour under the
\* playback-mark specification.
MaxMarkEvents == 4

\* Number of writing calls made to the transcript sinks per behaviour.
MaxSinkOps == 4

\* Largest reading of the millisecond clock.
MaxClock == 2

\* Largest limit passed to getRecentCalls.
MaxLimit == 2

\* Number of writing calls per behaviour under the ownership specification.
MaxOwnOps == 3

\* Number of invocations of the trigger-call tool per behaviour.
MaxTriggerCalls == 3

\* Number of inbound messages per behaviour under the specification of
\* concurrent transcript writes.
MaxRaceEvents == 3

\* Login sessions created, validations started, and clock ticks per
\* behaviour of the login service.
MaxLogins == 2
MaxAuthOps == 3
MaxNow == 2

\* MCP sessions initialized and POST /mcp requests per behaviour.
MaxMcpSessions == 2
MaxMcpOps == 4

\* Number of messages, failures and sink calls per behaviour of the two
\* sessions together.
MaxIsoSteps == 3

\* Number of inbound messages per behaviour under the persistence
\* specification.
MaxPersistEvents == 3

\* Number of registry operations per behaviour, and of session objects.
MaxRegOps == 5
MaxSessions == 3

(* ------------------------------ values -------------------------------- *)

\* responseStartTimestampTwilio when no response is in flight.
Null == -1

Timestamps == 0..MaxTs

\* Transcript texts carried by model events; "" is an empty/missing transcript.
Texts == {"", "hello", "goodbye"}

\* Audio payloads; "" is an empty/missing delta.
Payloads == {"", "A", "B"}

\* Item identifiers; "" is a delta without item_id.
ItemIds == {"", "abc", "def"}

\* The call identifier the carrier assigns to this call.
TheCallSid == "CA1"
TheStreamSid == "MZ1"

\* Names of playback checkpoints.
MarkNames == {"m1", "m2"}

\* Call identifiers handed to the transcript sinks and the registry.
CallSids == {TheCallSid, "CA2"}

\* Transcript lines handed to the transcript sinks.
Lines == { [role |-> "user", content |-> "hello"],
           [role |-> "assistant", content |-> "goodbye"] }

\* Values written to calls.status.
Statuses == {"pending", "in_progress", "completed"}

\* A call identifier with no transcript / no row in calls.
Absent == "absent"

\* The two transcript sinks.
SinkNames == {"store", "db"}

\* No transcript has been read by the last step.
NoRead == [sink |-> "", callSid |-> "", user |-> "", status |-> "", messages |-> <<>>]

\* Two concurrent call sessions and the call identifiers of their calls.
SessionNames == {"A", "B"}
SidOf == [A |-> TheCallSid, B |-> "CA2"]

\* Users of the web server, and the userId of no user.
Users == {"u1", "u2"}
NoUser == ""

\* MCP session ids (0: the request carries no mcp-session-id header) and the
\* outcome of no request.
McpIds == 1..MaxMcpSessions
NoMcpRequest == [requester |-> NoUser, sid |-> 0, status |-> 0, actsFor |-> NoUser]

\* Login session ids (the id column of sessions), the row of no session, and
\* the requests that may be validating a session at the same time.
LoginIds == 1..MaxLogins
NoLogin == [userId |-> NoUser, expiresAt |-> Null, lastAccess |-> Null]
Requests == {"r1", "r2"}
NoPending == [id |-> 0, found |-> NoLogin]
NoOutcome == [id |-> 0, result |-> "none", user |-> NoUser, found |-> NoLogin]

\* SESSION_DURATION_MS, in clock ticks.
SESSION_DURATION == 1

\* The limit argument of getRecentCalls.
Limits == 1..MaxLimit

\* No query has been answered by the last step.
NoQuery == [op |-> "", user |-> "", callSid |-> "", returned |-> {}]

\* The sink calls made so far for one call identifier: none yet.
NoTrace == [shape |-> "none", lines |-> <<>>]

\* Session objects, in order of creation.
SessionIds == 1..MaxSessions

\* lookup found no session.
NoSession == 0

\* The decoded model events the model socket can deliver.  Fields an event
\* kind does not carry are absent in the JSON and read as undefined (""): only
\* the fields the kind's handler reads are varied.
Responses ==
    { [type |-> "conversation.item.input_audio_transcription.completed",
       transcript |-> t, delta |-> "", item_id |-> ""] : t \in Texts }
    \cup
    { [type |-> "response.audio_transcript.done",
       transcript |-> t, delta |-> "", item_id |-> ""] : t \in Texts }
    \cup
    { [type |-> "response.audio.delta",
       transcript |-> "", delta |-> d, item_id |-> i] : d \in Payloads, i \in ItemIds }
    \cup
    { [type |-> "input_audio_buffer.speech_started",
       transcript |-> "", delta |-> "", item_id |-> ""] }
    \cup
    { [type |-> t, transcript |-> "", delta |-> "", item_id |-> ""] :
         t \in {"error", "response.done"} }

NoResponse == [type |-> "", transcript |-> "", delta |-> "", item_id |-> ""]

\* A raw socket message: either text JSON.parse rejects, or a decoded event.
Messages ==
    { [wellFormed |-> FALSE, response |-> NoResponse] }
    \cup { [wellFormed |-> TRUE, response |-> r] : r \in Responses }

(* ------------------------------- state -------------------------------- *)

VARIABLES
    callState,   \* the CallState object shared by the handlers
    session,     \* the call session: sockets, one-shot guard, registry entry
    twilioOut,   \* frames sent to the carrier, in order
    openaiOut,   \* instructions sent to the model, in order
    sinkCalls,   \* TranscriptSink calls issued, in order
    fx,          \* the effects of the last handled message, in program order
    lastEvent,   \* the message handled by the last step
    received,    \* transcript-bearing model events, in order of receipt
    audioIn,     \* audio payloads received, per direction, in order of receipt
    nEvents,     \* number of inbound messages delivered so far
    sink,        \* the transcript sinks: in-memory store, database, clock
    reg,         \* the session registry and the sessions it routes to
    web,         \* the web server: call origination, MCP sessions, logins
    iso          \* two call sessions running side by side in one process

\* The variables of one call.
callVars == <<callState, session, twilioOut, openaiOut, sinkCalls, fx, lastEvent,
              received, audioIn, nEvents>>

vars == <<callVars, sink, reg, web, iso>>

\* The part of the state the handlers read and write, passed through them in
\* program order.
World ==
    [callState |-> callState, session |-> session, twilioOut |-> twilioOut,
     openaiOut |-> openaiOut, sinkCalls |-> sinkCalls, fx |-> <<>>]

InitCallState ==
    [callSid |-> "",
     streamSid |-> "",
     conversationHistory |-> <<>>,
     latestMediaTimestamp |-> 0,
     responseStartTimestampTwilio |-> Null,
     lastAssistantItemId |-> "",
     status |-> "pending"]

InitSession ==
    [twilioSocket |-> "open",
     openaiSocket |-> "open",
     ended |-> FALSE,
     registered |-> TRUE,
     removals |-> 0,
     pendingEndCalls |-> 0,
     endCallInvocations |-> 0,
     triggered |-> FALSE,
     pendingPlaybackMarks |-> <<>>]

\* No transcript is in flight or stored; the clock reads 0.
InitSink ==
    [store |-> [c \in CallSids |->
                   [status |-> Absent, messages |-> <<>>, endTime |-> Null]],
     db |-> [calls |-> [c \in CallSids |-> Absent],
             owner |-> [c \in CallSids |-> NoUser],
             startedAt |-> [c \in CallSids |-> 0],
             endedAt |-> [c \in CallSids |-> Null],
             messages |-> <<>>],
     clock |-> 0,
     settled |-> {},
     found |-> {},
     logged |-> 0,
     lastRead |-> NoRead,
     lastQuery |-> NoQuery,
     trace |-> [t \in SinkNames |-> [c \in CallSids |-> NoTrace]],
     nOps |-> 0]

\* The registry is empty and no session exists.
InitReg ==
    [entries |-> {},
     created |-> 0,
     removed |-> {},
     forwarded |-> [sid \in SessionIds |-> <<>>],
     dropped |-> 0,
     lastOp |-> [op |-> "none", callId |-> "", result |-> NoSession],
     nOps |-> 0]

\* Variant: every event processor is given the CallState of session A.
NewOpenAIEventService_SharedState(state) == "A"

\* new OpenAIEventService(callState, ...): the instance keeps the CallState
\* object it is given.
NewOpenAIEventService(state) == state

\* Two sessions, each with its own CallState, sockets and outputs, and an
\* event processor constructed with the session's CallState.
InitIso ==
    [worlds |-> [s \in SessionNames |->
                    [callState |-> InitCallState, session |-> InitSession,
                     twilioOut |-> <<>>, openaiOut |-> <<>>, sinkCalls |-> <<>>,
                     fx |-> <<>>]],
     refs |-> [s \in SessionNames |-> NewOpenAIEventService(s)],
     last |-> [session |-> "", kind |-> "init"],
     nSteps |-> 0]

\* No invocation of the trigger-call tool has returned.
NoResult == [result |-> "none", callSid |-> "", user |-> NoUser,
             requestsMade |-> 0, placed |-> ""]

\* twilioCallService is not assigned yet and its callbackUrl is ''; the
\* carrier has received no request.
InitOrigin ==
    [service |-> "none",
     callbackUrl |-> "",
     requests |-> 0,
     placed |-> {},
     last |-> NoResult,
     nCalls |-> 0]

\* The sessions table is empty and no request is validating.
InitAuth ==
    [sessions |-> [i \in LoginIds |-> NoLogin],
     nextId |-> 1,
     now |-> 0,
     pending |-> [r \in Requests |-> NoPending],
     last |-> NoOutcome,
     expired |-> {},
     nDone |-> 0,
     nOps |-> 0]

\* transports and servers are empty; no session id has been generated.
InitMcp ==
    [transports |-> [i \in McpIds |-> FALSE],
     servers |-> [i \in McpIds |-> Absent],
     nextSid |-> 1,
     initialized |-> {},
     closed |-> {},
     last |-> NoMcpRequest,
     nReq |-> 0]

InitWeb == [origin |-> InitOrigin, auth |-> InitAuth, mcp |-> InitMcp]

Init ==
    /\ callState = InitCallState
    /\ session = InitSession
    /\ twilioOut = <<>>
    /\ openaiOut = <<>>
    /\ sinkCalls = <<>>
    /\ fx = <<>>
    /\ lastEvent = [kind |-> "init", msg |-> [wellFormed |-> FALSE, response |-> NoResponse]]
    /\ received = <<>>
    /\ audioIn = [carrier |-> <<>>, model |-> <<>>]
    /\ nEvents = 0
    /\ sink = InitSink
    /\ reg = InitReg
    /\ web = InitWeb
    /\ iso = InitIso

(* ----------------------- small helpers -------------------------------- *)

Max(a, b) == IF a >= b THEN a ELSE b

IsPrefix(s, t) == Len(s) <= Len(t) /\ SubSeq(t, 1, Len(s)) = s

\* JavaScript truthiness of an optional number: null/undefined and 0 are falsy.
Falsy(n) == n = Null \/ n = 0

Effect(w, name) == [w EXCEPT !.fx = Append(@, name)]

(* ------------- collaborators of the event processor ------------------- *)

\* checkForGoodbye(text): the termination-phrase policy.
CheckForGoodbye(text) == text = "goodbye"

\* callPersistenceService.addMessage(callSid, role, content), as seen from the
\* caller: the promise is created and not awaited.
AddMessage(w, callSid, role, content) ==
    Effect([w EXCEPT !.sinkCalls =
                Append(@, [op |-> "addMessage", callSid |-> callSid,
                           role |-> role, content |-> content])],
           "addMessage")

\* onSendAudioToTwilio(payload): MediaStreamEndpoint.sendAudio, one outbound
\* media frame.
OnSendAudioToTwilio(w, payload) ==
    Effect([w EXCEPT !.twilioOut = Append(@, [event |-> "media", payload |-> payload])],
           "sendAudio")

\* Variant: truncates without flushing the carrier's buffer.
DoTruncate_NoClear(w) ==
    LET cs == w.callState
        elapsed == Max(0, cs.latestMediaTimestamp - cs.responseStartTimestampTwilio)
    IN  Effect(
          [w EXCEPT
             !.openaiOut = Append(@, [op |-> "truncate",
                                      item_id |-> cs.lastAssistantItemId,
                                      elapsed |-> elapsed,
                                      payload |-> ""]),
             !.callState.responseStartTimestampTwilio = Null,
             !.callState.lastAssistantItemId = "",
             !.session.pendingPlaybackMarks = <<>>],
          "truncate")

\* The truncation itself: truncate instruction to the model, clear frame to
\* the carrier, response bookkeeping and outstanding marks reset.
DoTruncate(w) ==
    LET cs == w.callState
        elapsed == Max(0, cs.latestMediaTimestamp - cs.responseStartTimestampTwilio)
    IN  Effect(
          [w EXCEPT
             !.openaiOut = Append(@, [op |-> "truncate",
                                      item_id |-> cs.lastAssistantItemId,
                                      elapsed |-> elapsed,
                                      payload |-> ""]),
             !.twilioOut = Append(@, [event |-> "clear", payload |-> ""]),
             !.callState.responseStartTimestampTwilio = Null,
             !.callState.lastAssistantItemId = "",
             !.session.pendingPlaybackMarks = <<>>],
          "truncate")

\* Variant: truncates whether or not a response is active.
TruncateActiveResponse_NoGuard(w) == DoTruncate(w)

\* CallSession.truncateActiveResponse(), wired in as onTruncateResponse.
TruncateActiveResponse(w) ==
    IF w.callState.lastAssistantItemId = ""
    THEN w
    ELSE DoTruncate(w)

\* onEndCall(): a goodbye match schedules endCall("goodbye") on the session.
OnEndCall(w) ==
    Effect([w EXCEPT !.session.pendingEndCalls = @ + 1,
                     !.session.triggered = TRUE],
           "onEndCall")

(* -------------------- OpenAIEventService ------------------------------ *)

\* Variant: inserts the new line at the front (unshift instead of push).
PushHistory_Unshift(w, role, content) ==
    Effect([w EXCEPT !.callState.conversationHistory =
                        <<[role |-> role, content |-> content]>> \o @],
           "push")

\* this.callState.conversationHistory.push({role, content}).
PushHistory(w, role, content) ==
    Effect([w EXCEPT !.callState.conversationHistory =
                        Append(@, [role |-> role, content |-> content])],
           "push")

\* Variant: runs the goodbye check before the line is saved.
HandleTranscriptionCompleted_EndBeforeSave(w, transcription) ==
    IF transcription = ""
    THEN w
    ELSE LET w1 == PushHistory(w, "user", transcription)
             w2 == IF CheckForGoodbye(transcription) THEN OnEndCall(w1) ELSE w1
         IN  IF w2.callState.callSid # ""
             THEN AddMessage(w2, w2.callState.callSid, "user", transcription)
             ELSE w2

\* Variant: the line is saved whether or not callSid is set.
HandleTranscriptionCompleted_NoCallSidGuard(w, transcription) ==
    IF transcription = ""
    THEN w
    ELSE LET w1 == PushHistory(w, "user", transcription)
             w2 == AddMessage(w1, w1.callState.callSid, "user", transcription)
         IN  IF CheckForGoodbye(transcription) THEN OnEndCall(w2) ELSE w2

HandleTranscriptionCompleted(w, transcription) ==
    IF transcription = ""
    THEN w
    ELSE LET w1 == PushHistory(w, "user", transcription)
             w2 == IF w1.callState.callSid # ""
                   THEN AddMessage(w1, w1.callState.callSid, "user", transcription)
                   ELSE w1
         IN  IF CheckForGoodbye(transcription) THEN OnEndCall(w2) ELSE w2

\* Variant: the assistant's line is stored with the caller's role.
HandleAudioTranscriptDone_AsUser(w, transcript) ==
    IF transcript = ""
    THEN w
    ELSE LET w1 == PushHistory(w, "user", transcript)
             w2 == IF w1.callState.callSid # ""
                   THEN AddMessage(w1, w1.callState.callSid, "user", transcript)
                   ELSE w1
         IN  IF CheckForGoodbye(transcript) THEN OnEndCall(w2) ELSE w2

HandleAudioTranscriptDone(w, transcript) ==
    IF transcript = ""
    THEN w
    ELSE LET w1 == PushHistory(w, "assistant", transcript)
             w2 == IF w1.callState.callSid # ""
                   THEN AddMessage(w1, w1.callState.callSid, "assistant", transcript)
                   ELSE w1
         IN  IF CheckForGoodbye(transcript) THEN OnEndCall(w2) ELSE w2

\* Variant: the item identifier of the delta is not recorded.
HandleAudioDelta_NoItem(w, response) ==
    LET w1 == OnSendAudioToTwilio(w, response.delta)
    IN  IF Falsy(w1.callState.responseStartTimestampTwilio)
        THEN [w1 EXCEPT !.callState.responseStartTimestampTwilio =
                            w1.callState.latestMediaTimestamp]
        ELSE w1

\* Variant: the payload is relayed only with the first delta of a response.
HandleAudioDelta_RelayFirstOnly(w, response) ==
    LET w2 == IF Falsy(w.callState.responseStartTimestampTwilio)
              THEN [OnSendAudioToTwilio(w, response.delta)
                      EXCEPT !.callState.responseStartTimestampTwilio =
                                  w.callState.latestMediaTimestamp]
              ELSE w
    IN  IF response.item_id # ""
        THEN [w2 EXCEPT !.callState.lastAssistantItemId = response.item_id]
        ELSE w2

\* Variant: the assignment of the start timestamp is written the wrong way
\* round.
HandleAudioDelta_SwappedAssignment(w, response) ==
    LET w1 == OnSendAudioToTwilio(w, response.delta)
        w2 == IF Falsy(w1.callState.responseStartTimestampTwilio)
              THEN [w1 EXCEPT !.callState.latestMediaTimestamp =
                                  w1.callState.responseStartTimestampTwilio]
              ELSE w1
    IN  IF response.item_id # ""
        THEN [w2 EXCEPT !.callState.lastAssistantItemId = response.item_id]
        ELSE w2

HandleAudioDelta(w, response) ==
    LET w1 == OnSendAudioToTwilio(w, response.delta)
        w2 == IF Falsy(w1.callState.responseStartTimestampTwilio)
              THEN [w1 EXCEPT !.callState.responseStartTimestampTwilio =
                                  w1.callState.latestMediaTimestamp]
              ELSE w1
    IN  IF response.item_id # ""
        THEN [w2 EXCEPT !.callState.lastAssistantItemId = response.item_id]
        ELSE w2

\* Variant: the speech_started case is missing from the switch.
ProcessEvent_NoSpeechStarted(w, response) ==
    CASE response.type = "conversation.item.input_audio_transcription.completed" ->
            HandleTranscriptionCompleted(w, response.transcript)
      [] response.type = "response.audio_transcript.done" ->
            HandleAudioTranscriptDone(w, response.transcript)
      [] response.type = "response.audio.delta" ->
            IF response.delta # "" THEN HandleAudioDelta(w, response) ELSE w
      [] OTHER -> w

\* Variant: an error event ends the call.
ProcessEvent_ErrorEndsCall(w, response) ==
    CASE response.type = "conversation.item.input_audio_transcription.completed" ->
            HandleTranscriptionCompleted(w, response.transcript)
      [] response.type = "response.audio_transcript.done" ->
            HandleAudioTranscriptDone(w, response.transcript)
      [] response.type = "response.audio.delta" ->
            IF response.delta # "" THEN HandleAudioDelta(w, response) ELSE w
      [] response.type = "input_audio_buffer.speech_started" ->
            TruncateActiveResponse(w)
      [] response.type = "error" -> OnEndCall(w)
      [] OTHER -> w

\* Variant: an audio delta is handled whether or not it carries audio.
ProcessEvent_NoDeltaGuard(w, response) ==
    CASE response.type = "conversation.item.input_audio_transcription.completed" ->
            HandleTranscriptionCompleted(w, response.transcript)
      [] response.type = "response.audio_transcript.done" ->
            HandleAudioTranscriptDone(w, response.transcript)
      [] response.type = "response.audio.delta" ->
            HandleAudioDelta(w, response)
      [] response.type = "input_audio_buffer.speech_started" ->
            TruncateActiveResponse(w)
      [] OTHER -> w

ProcessEvent(w, response) ==
    CASE response.type = "conversation.item.input_audio_transcription.completed" ->
            HandleTranscriptionCompleted(w, response.transcript)
      [] response.type = "response.audio_transcript.done" ->
            HandleAudioTranscriptDone(w, response.transcript)
      [] response.type = "response.audio.delta" ->
            IF response.delta # "" THEN HandleAudioDelta(w, response) ELSE w
      [] response.type = "input_audio_buffer.speech_started" ->
            TruncateActiveResponse(w)
      [] OTHER -> w

\* Variant: the catch block ends the call.
ProcessMessage_EndOnError(w, data) ==
    IF data.wellFormed THEN ProcessEvent(w, data.response) ELSE OnEndCall(w)

\* JSON.parse throws on a malformed message; the catch block only logs.
ProcessMessage(w, data) ==
    IF data.wellFormed THEN ProcessEvent(w, data.response) ELSE w

(* --------------------------- CallSession ------------------------------ *)

\* Closing a socket that is still open makes its close handler run later,
\* which is one more termination trigger; closing a closed socket is ignored.
CloseSockets(w) ==
    LET n == (IF w.session.twilioSocket = "open" THEN 1 ELSE 0)
             + (IF w.session.openaiSocket = "open" THEN 1 ELSE 0)
    IN  [w EXCEPT !.session.twilioSocket = "closed",
                  !.session.openaiSocket = "closed",
                  !.session.pendingEndCalls = @ + n]

\* Variant: the session stays in the registry.
Teardown_KeepsRegistered(w) ==
    LET w1 == CloseSockets([w EXCEPT !.session.ended = TRUE])
        w2 == [w1 EXCEPT !.sinkCalls =
                  Append(@, [op |-> "endCall", callSid |-> w1.callState.callSid,
                             role |-> "", content |-> ""])]
    IN  [w2 EXCEPT !.callState.status = "completed"]

\* The body of endCall, run once per session.
Teardown(w) ==
    LET w1 == CloseSockets([w EXCEPT !.session.ended = TRUE])
        w2 == [w1 EXCEPT !.sinkCalls =
                  Append(@, [op |-> "endCall", callSid |-> w1.callState.callSid,
                             role |-> "", content |-> ""])]
        w3 == [w2 EXCEPT !.callState.status = "completed"]
    IN  [w3 EXCEPT !.session.registered = FALSE,
                   !.session.removals = @ + 1]

\* Variant: no one-shot guard.
EndCall_NoGuard(w) == Teardown([w EXCEPT !.session.endCallInvocations = @ + 1])

\* CallSession.endCall(reason): one-shot.
EndCall(w) ==
    LET w1 == [w EXCEPT !.session.endCallInvocations = @ + 1]
    IN  IF w.session.ended THEN w1 ELSE Teardown(w1)

\* CallSession.onCarrierFrame(frame), frame.event = "start", for the call
\* and stream the frame names.
OnCarrierStartFor(w, callSid, streamSid) ==
    LET w1 == [w EXCEPT !.callState.streamSid = streamSid,
                        !.callState.callSid = callSid,
                        !.callState.status =
                            IF @ = "pending" THEN "in_progress" ELSE @]
    IN  [w1 EXCEPT !.sinkCalls =
            Append(@, [op |-> "startCall", callSid |-> callSid,
                       role |-> "", content |-> ""])]

OnCarrierStart(w) == OnCarrierStartFor(w, TheCallSid, TheStreamSid)

\* The close or error handler of a socket queues endCall.
OnSocketGone(w, socket) ==
    [w EXCEPT !.session[socket] = "closed",
              !.session.pendingEndCalls = @ + 1,
              !.session.triggered = TRUE]

\* CallSession.onCarrierFrame(frame), frame.event = "media".
OnCarrierMedia(w, payload, timestamp) ==
    [w EXCEPT !.callState.latestMediaTimestamp = timestamp,
              !.openaiOut = Append(@, [op |-> "append-audio", item_id |-> "",
                                       elapsed |-> 0, payload |-> payload])]

RECURSIVE RemoveFirst(_, _)
\* seq without its first occurrence of x.
RemoveFirst(seq, x) ==
    IF seq = <<>> THEN <<>>
    ELSE IF Head(seq) = x THEN Tail(seq)
    ELSE <<Head(seq)>> \o RemoveFirst(Tail(seq), x)

\* CallSession.onCarrierFrame(frame), frame.event = "mark": the carrier
\* acknowledges a playback checkpoint.
OnCarrierMark(w, name) ==
    [w EXCEPT !.session.pendingPlaybackMarks = RemoveFirst(@, name)]

\* The session sends a named playback checkpoint to the carrier.
SendMarkFrame(w, name) ==
    [w EXCEPT !.twilioOut = Append(@, [event |-> "mark", payload |-> name]),
              !.session.pendingPlaybackMarks = Append(@, name)]

\* CallSession.onCarrierFrame(frame), frame.event = "stop".
OnCarrierStop(w) == EndCall([w EXCEPT !.session.triggered = TRUE])

(* -------------------------- transcript sinks -------------------------- *)

\* TranscriptStoreService.startCall: a fresh in_progress transcript replaces
\* whatever the Map holds for callSid.
TranscriptStore_StartCall(store, callSid) ==
    [store EXCEPT ![callSid] =
        [status |-> "in_progress", messages |-> <<>>, endTime |-> Null]]

\* Variant: newest line first.
TranscriptStore_AddMessage_Unshift(store, callSid, role, content) ==
    IF store[callSid].status = Absent
    THEN store
    ELSE [store EXCEPT ![callSid].messages =
              <<[role |-> role, content |-> content]>> \o @]

\* TranscriptStoreService.addMessage.
TranscriptStore_AddMessage(store, callSid, role, content) ==
    IF store[callSid].status = Absent
    THEN store
    ELSE [store EXCEPT ![callSid].messages =
              Append(@, [role |-> role, content |-> content])]

\* TranscriptStoreService.endCall: endTime = new Date(), status completed.
TranscriptStore_EndCall(store, callSid, now) ==
    IF store[callSid].status = Absent
    THEN store
    ELSE [store EXCEPT ![callSid].status = "completed",
                       ![callSid].endTime = now]

\* TranscriptStoreService.getTranscript.
TranscriptStore_GetTranscript(store, callSid) == store[callSid]

\* The calls and call_messages tables: a row of calls is its status, its
\* owner (user_id) and its started_at; call_messages keeps insertion order
\* and each row's timestamp column.

\* CallPersistenceService.startCall: prisma.call.create; calls.call_sid is
\* unique, so a second create for the same callSid rejects and changes nothing.
CallPersistence_StartCall(db, userId, callSid, now) ==
    IF db.calls[callSid] # Absent
    THEN db
    ELSE [db EXCEPT !.calls[callSid] = "in_progress",
                    !.owner[callSid] = userId,
                    !.startedAt[callSid] = now]

\* CallPersistenceService.addMessage: findUnique, then callMessage.create;
\* the row's timestamp is the clock reading at the insert, in milliseconds.
CallPersistence_AddMessage(db, callSid, role, content, now) ==
    IF db.calls[callSid] = Absent
    THEN db
    ELSE [db EXCEPT !.messages =
              Append(@, [callSid |-> callSid, role |-> role,
                         content |-> content, timestamp |-> now])]

\* CallPersistenceService.endCall: update ... .catch(() => null).
CallPersistence_EndCall(db, callSid, now) ==
    IF db.calls[callSid] = Absent
    THEN db
    ELSE [db EXCEPT !.calls[callSid] = "completed",
                    !.endedAt[callSid] = now]

\* CallPersistenceService.updateCallStatus: status is any string.
CallPersistence_UpdateCallStatus(db, callSid, status) ==
    IF db.calls[callSid] = Absent
    THEN db
    ELSE [db EXCEPT !.calls[callSid] = status]

RECURSIVE MessagesOf(_, _)
\* The rows of call_messages that belong to callSid, in insertion order.
MessagesOf(rows, callSid) ==
    IF rows = <<>> THEN <<>>
    ELSE (IF Head(rows).callSid = callSid THEN <<Head(rows)>> ELSE <<>>)
         \o MessagesOf(Tail(rows), callSid)

\* orderBy: { timestamp: 'asc' }: every order of rows in which timestamps do
\* not decrease; rows with equal timestamps come back in any order.
OrderByTimestampAsc(rows) ==
    { [i \in 1..Len(rows) |-> rows[p[i]]] :
        p \in { q \in Permutations(1..Len(rows)) :
                  \A i, j \in 1..Len(rows) :
                     i < j => rows[q[i]].timestamp <= rows[q[j]].timestamp } }

\* callToTranscript: callSid and status of the call, role and content of
\* each message.
CallToTranscript(callSid, status, rows) ==
    [callSid |-> callSid,
     status |-> status,
     messages |-> [i \in 1..Len(rows) |->
                      [role |-> rows[i].role, content |-> rows[i].content]]]

\* A query that found no call returns null.
NoTranscript == [callSid |-> "", status |-> Absent, messages |-> <<>>]

\* include: { messages: { orderBy: { timestamp: 'asc' } } }: the transcripts
\* a query that selected the row of callSid can return.
TranscriptsOf(db, callSid) ==
    { CallToTranscript(callSid, db.calls[callSid], rows) :
        rows \in OrderByTimestampAsc(MessagesOf(db.messages, callSid)) }

\* Variant: the transcript is returned to whoever asks.
CallPersistence_GetTranscript_NoOwnerCheck(db, callSid, userId) ==
    IF db.calls[callSid] = Absent
    THEN { NoTranscript }
    ELSE TranscriptsOf(db, callSid)

\* CallPersistenceService.getTranscript: null when there is no such call or
\* it belongs to another user.
CallPersistence_GetTranscript(db, callSid, userId) ==
    IF db.calls[callSid] = Absent
    THEN { NoTranscript }
    ELSE IF db.owner[callSid] # userId
    THEN { NoTranscript }
    ELSE TranscriptsOf(db, callSid)

\* where: { userId }: the calls of a user.
CallsOf(db, userId) ==
    { c \in CallSids : db.calls[c] # Absent /\ db.owner[c] = userId }

\* orderBy: { startedAt: 'desc' }: every order of the calls in which
\* started_at does not increase.
OrderByStartedAtDesc(db, calls) ==
    { o \in [1..Cardinality(calls) -> calls] :
        /\ \A i, j \in 1..Cardinality(calls) : i # j => o[i] # o[j]
        /\ \A i, j \in 1..Cardinality(calls) :
              i < j => db.startedAt[o[i]] >= db.startedAt[o[j]] }

\* CallPersistenceService.getLatestTranscript: findFirst among the user's
\* calls, latest first.
CallPersistence_GetLatestTranscript(db, userId) ==
    IF CallsOf(db, userId) = {}
    THEN { NoTranscript }
    ELSE UNION { TranscriptsOf(db, o[1]) :
                   o \in OrderByStartedAtDesc(db, CallsOf(db, userId)) }

\* CallPersistenceService.getRecentCalls: the callSids of the first limit of
\* the user's calls, latest first.
CallPersistence_GetRecentCalls(db, userId, limit) ==
    { SubSeq(o, 1, IF limit < Len(o) THEN limit ELSE Len(o)) :
        o \in OrderByStartedAtDesc(db, CallsOf(db, userId)) }

\* Variant of the rejection handler: a failed write ends the call.
OnAddMessageRejected_Propagates(w) == OnEndCall(w)

\* .catch(err => console.error(...)) on the promise addMessage returned.
OnAddMessageRejected(w) == w

(* ------------------------------ actions ------------------------------- *)

Commit(w) ==
    /\ callState' = w.callState
    /\ session' = w.session
    /\ twilioOut' = w.twilioOut
    /\ openaiOut' = w.openaiOut
    /\ sinkCalls' = w.sinkCalls
    /\ fx' = w.fx

IsTranscriptEvent(data) ==
    /\ data.wellFormed
    /\ data.response.type \in
          { "conversation.item.input_audio_transcription.completed",
            "response.audio_transcript.done" }

IsAudioDelta(data) ==
    /\ data.wellFormed
    /\ data.response.type = "response.audio.delta"
    /\ data.response.delta # ""

\* The model socket delivers one message to OpenAIEventService.processMessage.
ModelMessage ==
    /\ nEvents < MaxEvents
    /\ session.openaiSocket = "open"
    /\ \E data \in Messages :
          /\ Commit(ProcessMessage(World, data))
          /\ lastEvent' = [kind |-> "model", msg |-> data]
          /\ received' = IF IsTranscriptEvent(data)
                         THEN Append(received, data.response)
                         ELSE received
          /\ audioIn' = IF IsAudioDelta(data)
                        THEN [audioIn EXCEPT !.model = Append(@, data.response.delta)]
                        ELSE audioIn
    /\ nEvents' = nEvents + 1
    /\ UNCHANGED <<sink, reg, web, iso>>

NoMessage == [wellFormed |-> FALSE, response |-> NoResponse]

CarrierStart ==
    /\ nEvents < MaxEvents
    /\ session.twilioSocket = "open"
    /\ callState.streamSid = ""
    /\ Commit(OnCarrierStart(World))
    /\ lastEvent' = [kind |-> "start", msg |-> NoMessage]
    /\ nEvents' = nEvents + 1
    /\ UNCHANGED <<received, audioIn>>
    /\ UNCHANGED <<sink, reg, web, iso>>

CarrierMedia ==
    /\ nEvents < MaxEvents
    /\ session.twilioSocket = "open"
    /\ callState.streamSid # ""
    /\ \E payload \in Payloads \ {""}, timestamp \in Timestamps :
          /\ timestamp >= callState.latestMediaTimestamp
          /\ Commit(OnCarrierMedia(World, payload, timestamp))
          /\ audioIn' = [audioIn EXCEPT !.carrier = Append(@, payload)]
    /\ lastEvent' = [kind |-> "media", msg |-> NoMessage]
    /\ nEvents' = nEvents + 1
    /\ UNCHANGED received
    /\ UNCHANGED <<sink, reg, web, iso>>

CarrierStop ==
    /\ nEvents < MaxEvents
    /\ session.twilioSocket = "open"
    /\ Commit(OnCarrierStop(World))
    /\ lastEvent' = [kind |-> "stop", msg |-> NoMessage]
    /\ nEvents' = nEvents + 1
    /\ UNCHANGED <<received, audioIn>>
    /\ UNCHANGED <<sink, reg, web, iso>>

\* The peer closes the carrier socket, or the socket errors: its close/error
\* handler is queued.
TwilioSocketGone ==
    /\ nEvents < MaxEvents
    /\ session.twilioSocket = "open"
    /\ session' = OnSocketGone(World, "twilioSocket").session
    /\ lastEvent' = [kind |-> "twilio-gone", msg |-> NoMessage]
    /\ fx' = <<>>
    /\ nEvents' = nEvents + 1
    /\ UNCHANGED <<callState, twilioOut, openaiOut, sinkCalls, received, audioIn>>
    /\ UNCHANGED <<sink, reg, web, iso>>

OpenAISocketGone ==
    /\ nEvents < MaxEvents
    /\ session.openaiSocket = "open"
    /\ session' = OnSocketGone(World, "openaiSocket").session
    /\ lastEvent' = [kind |-> "openai-gone", msg |-> NoMessage]
    /\ fx' = <<>>
    /\ nEvents' = nEvents + 1
    /\ UNCHANGED <<callState, twilioOut, openaiOut, sinkCalls, received, audioIn>>
    /\ UNCHANGED <<sink, reg, web, iso>>

\* A queued termination trigger (goodbye match, socket close/error) runs
\* endCall.
RunEndCall ==
    /\ session.pendingEndCalls > 0
    /\ Commit(EndCall([World EXCEPT !.session.pendingEndCalls = @ - 1]))
    /\ lastEvent' = [kind |-> "endCall", msg |-> NoMessage]
    /\ UNCHANGED <<received, audioIn, nEvents>>
    /\ UNCHANGED <<sink, reg, web, iso>>

Next ==
    \/ ModelMessage
    \/ CarrierStart
    \/ CarrierMedia
    \/ CarrierStop
    \/ TwilioSocketGone
    \/ OpenAISocketGone
    \/ RunEndCall

Spec == Init /\ [][Next]_vars

\* The carrier reports that a playback checkpoint was reached.
CarrierMark ==
    /\ session.twilioSocket = "open"
    /\ callState.streamSid # ""
    /\ \E name \in MarkNames : Commit([OnCarrierMark(World, name) EXCEPT !.fx = <<>>])
    /\ lastEvent' = [kind |-> "mark", msg |-> NoMessage]
    /\ nEvents' = nEvents + 1
    /\ UNCHANGED <<received, audioIn>>
    /\ UNCHANGED <<sink, reg, web, iso>>

\* The session marks the audio it has sent so far.
SendMark ==
    /\ session.twilioSocket = "open"
    /\ callState.streamSid # ""
    /\ \E name \in MarkNames : Commit([SendMarkFrame(World, name) EXCEPT !.fx = <<>>])
    /\ lastEvent' = [kind |-> "send-mark", msg |-> NoMessage]
    /\ nEvents' = nEvents + 1
    /\ UNCHANGED <<received, audioIn>>
    /\ UNCHANGED <<sink, reg, web, iso>>

\* The call with playback checkpoints, over shorter behaviours.
MarkNext ==
    \/ (nEvents < MaxMarkEvents /\ ModelMessage)
    \/ (nEvents < MaxMarkEvents /\ CarrierStart)
    \/ (nEvents < MaxMarkEvents /\ CarrierMedia)
    \/ (nEvents < MaxMarkEvents /\ CarrierMark)
    \/ (nEvents < MaxMarkEvents /\ SendMark)
    \/ (nEvents < MaxMarkEvents /\ CarrierStop)
    \/ (nEvents < MaxMarkEvents /\ TwilioSocketGone)
    \/ (nEvents < MaxMarkEvents /\ OpenAISocketGone)
    \/ RunEndCall

MarkSpec == Init /\ [][MarkNext]_vars

\* The same steps over shorter behaviours, for the liveness check.
FairNext ==
    \/ (nEvents < MaxFairEvents /\ ModelMessage)
    \/ (nEvents < MaxFairEvents /\ CarrierStart)
    \/ (nEvents < MaxFairEvents /\ CarrierMedia)
    \/ (nEvents < MaxFairEvents /\ CarrierStop)
    \/ (nEvents < MaxFairEvents /\ TwilioSocketGone)
    \/ (nEvents < MaxFairEvents /\ OpenAISocketGone)
    \/ RunEndCall

\* The event loop runs every queued handler: a queued endCall is not
\* postponed forever.
FairSpec == Init /\ [][FairNext]_vars /\ WF_vars(RunEndCall)

(* ------------------------ transcript sink calls ----------------------- *)

NoLine == [role |-> "", content |-> ""]

\* The calls made so far for one identifier on one sink, as far as they have
\* the form startCall, addMessage ..., endCall.
TraceStep(tr, op, line) ==
    IF tr.shape = "none" /\ op = "startCall"
    THEN [shape |-> "started", lines |-> <<>>]
    ELSE IF tr.shape = "started" /\ op = "addMessage"
    THEN [tr EXCEPT !.lines = Append(@, line)]
    ELSE IF tr.shape = "started" /\ op = "endCall"
    THEN [tr EXCEPT !.shape = "ended"]
    ELSE [shape |-> "other", lines |-> <<>>]

Called(s, target, callSid, op, line) ==
    [s EXCEPT !.trace[target][callSid] = TraceStep(@, op, line),
              !.nOps = @ + 1,
              !.lastRead = NoRead,
              !.lastQuery = NoQuery]

StoreStartCall ==
    /\ sink.nOps < MaxSinkOps
    /\ \E c \in CallSids :
          sink' = [Called(sink, "store", c, "startCall", NoLine) EXCEPT
                      !.store = TranscriptStore_StartCall(@, c)]
    /\ UNCHANGED <<callVars, reg, web, iso>>

StoreAddMessage ==
    /\ sink.nOps < MaxSinkOps
    /\ \E c \in CallSids, line \in Lines :
          sink' = [Called(sink, "store", c, "addMessage", line) EXCEPT
                      !.store = TranscriptStore_AddMessage(@, c, line.role, line.content)]
    /\ UNCHANGED <<callVars, reg, web, iso>>

StoreEndCall ==
    /\ sink.nOps < MaxSinkOps
    /\ \E c \in CallSids :
          sink' = [Called(sink, "store", c, "endCall", NoLine) EXCEPT
                      !.store = TranscriptStore_EndCall(@, c, sink.clock)]
    /\ UNCHANGED <<callVars, reg, web, iso>>

StoreRead ==
    /\ \E c \in CallSids :
          LET t == TranscriptStore_GetTranscript(sink.store, c)
          IN  sink' = [sink EXCEPT
                          !.lastQuery = NoQuery,
                          !.lastRead = [sink |-> "store", callSid |-> c, user |-> NoUser,
                                        status |-> t.status, messages |-> t.messages]]
    /\ UNCHANGED <<callVars, reg, web, iso>>

PersistStartCall ==
    /\ sink.nOps < MaxSinkOps
    /\ \E c \in CallSids, u \in Users :
          sink' = [Called(sink, "db", c, "startCall", NoLine) EXCEPT
                      !.db = CallPersistence_StartCall(@, u, c, sink.clock)]
    /\ UNCHANGED <<callVars, reg, web, iso>>

\* An awaited addMessage: lookup and insert.
PersistAddMessage ==
    /\ sink.nOps < MaxSinkOps
    /\ \E c \in CallSids, line \in Lines :
          sink' = [Called(sink, "db", c, "addMessage", line) EXCEPT
                      !.db = CallPersistence_AddMessage(@, c, line.role, line.content,
                                                        sink.clock)]
    /\ UNCHANGED <<callVars, reg, web, iso>>

PersistEndCall ==
    /\ sink.nOps < MaxSinkOps
    /\ \E c \in CallSids :
          sink' = [Called(sink, "db", c, "endCall", NoLine) EXCEPT
                      !.db = CallPersistence_EndCall(@, c, sink.clock)]
    /\ UNCHANGED <<callVars, reg, web, iso>>

PersistUpdateStatus ==
    /\ sink.nOps < MaxSinkOps
    /\ \E c \in CallSids, status \in Statuses :
          sink' = [Called(sink, "db", c, "updateCallStatus", NoLine) EXCEPT
                      !.db = CallPersistence_UpdateCallStatus(@, c, status)]
    /\ UNCHANGED <<callVars, reg, web, iso>>

\* The get-transcript tool of user u, with a callSid.
PersistRead ==
    /\ \E c \in CallSids, u \in Users :
          \E t \in CallPersistence_GetTranscript(sink.db, c, u) :
             sink' = [sink EXCEPT
                         !.lastRead = [sink |-> "db", callSid |-> c, user |-> u,
                                       status |-> t.status, messages |-> t.messages],
                         !.lastQuery = [op |-> "getTranscript", user |-> u,
                                        callSid |-> c,
                                        returned |-> {t.callSid} \ {""}]]
    /\ UNCHANGED <<callVars, reg, web, iso>>

\* The get-transcript tool of user u, without a callSid.
PersistReadLatest ==
    /\ \E u \in Users :
          \E t \in CallPersistence_GetLatestTranscript(sink.db, u) :
             sink' = [sink EXCEPT
                         !.lastRead = NoRead,
                         !.lastQuery = [op |-> "getLatestTranscript", user |-> u,
                                        callSid |-> "",
                                        returned |-> {t.callSid} \ {""}]]
    /\ UNCHANGED <<callVars, reg, web, iso>>

\* The list-calls tool of user u.
PersistReadRecent ==
    /\ \E u \in Users, limit \in Limits :
          \E o \in CallPersistence_GetRecentCalls(sink.db, u, limit) :
             sink' = [sink EXCEPT
                         !.lastRead = NoRead,
                         !.lastQuery = [op |-> "getRecentCalls", user |-> u,
                                        callSid |-> "",
                                        returned |-> { o[i] : i \in 1..Len(o) }]]
    /\ UNCHANGED <<callVars, reg, web, iso>>

\* A millisecond passes.
ClockTick ==
    /\ sink.clock < MaxClock
    /\ sink' = [sink EXCEPT !.clock = @ + 1]
    /\ UNCHANGED <<callVars, reg, web, iso>>

\* The transcript sinks under any sequence of calls.
SinkNext ==
    \/ StoreStartCall
    \/ StoreAddMessage
    \/ StoreEndCall
    \/ StoreRead
    \/ PersistStartCall
    \/ PersistAddMessage
    \/ PersistEndCall
    \/ PersistUpdateStatus
    \/ PersistRead
    \/ ClockTick

SinkSpec == Init /\ [][SinkNext]_vars

\* The calls of several users and the queries their tools make.
OwnNext ==
    \/ (sink.nOps < MaxOwnOps /\ PersistStartCall)
    \/ (sink.nOps < MaxOwnOps /\ PersistAddMessage)
    \/ PersistRead
    \/ PersistReadLatest
    \/ PersistReadRecent
    \/ ClockTick

OwnSpec == Init /\ [][OwnNext]_vars

\* The addMessage calls the handlers have dispatched and whose promise has
\* not settled.
InFlight ==
    { i \in 1..Len(sinkCalls) : sinkCalls[i].op = "addMessage" } \ sink.settled

\* The promise of a dispatched addMessage resolves: lookup and insert ran.
WriteResolves ==
    /\ \E i \in InFlight :
          LET c == sinkCalls[i]
              line == [role |-> c.role, content |-> c.content]
          IN  sink' = [Called(sink, "db", c.callSid, "addMessage", line) EXCEPT
                          !.db = CallPersistence_AddMessage(@, c.callSid, c.role,
                                                            c.content, sink.clock),
                          !.settled = @ \cup {i}]
    /\ UNCHANGED <<callVars, reg, web, iso>>

\* The promise of a dispatched addMessage rejects: its catch handler runs.
WriteRejects ==
    /\ \E i \in InFlight :
          sink' = [sink EXCEPT !.settled = @ \cup {i}, !.logged = @ + 1]
    /\ Commit(OnAddMessageRejected(World))
    /\ lastEvent' = [kind |-> "write-rejected", msg |-> NoMessage]
    /\ UNCHANGED <<received, audioIn, nEvents, reg, web, iso>>

\* The call is stored once, by the tool that placed it.
NoCallStored == \A c \in CallSids : sink.db.calls[c] = Absent

\* One call whose transcript writes settle, or fail, while it runs.
PersistNext ==
    \/ (nEvents < MaxPersistEvents /\ ModelMessage)
    \/ (nEvents < MaxPersistEvents /\ CarrierStart)
    \/ (nEvents < MaxPersistEvents /\ CarrierStop)
    \/ RunEndCall
    \/ (NoCallStored /\ PersistStartCall)
    \/ WriteResolves
    \/ WriteRejects

PersistSpec == Init /\ [][PersistNext]_vars

(* ------------------- transcript writes, step by step ------------------ *)

\* The first await of a dispatched addMessage returns: findUnique found the
\* call, or found none and addMessage returns null.
WriteLookup ==
    /\ \E i \in InFlight \ sink.found :
          IF sink.db.calls[sinkCalls[i].callSid] = Absent
          THEN sink' = [sink EXCEPT !.settled = @ \cup {i},
                                    !.lastRead = NoRead, !.lastQuery = NoQuery]
          ELSE sink' = [sink EXCEPT !.found = @ \cup {i},
                                    !.lastRead = NoRead, !.lastQuery = NoQuery]
    /\ UNCHANGED <<callVars, reg, web, iso>>

\* The second await of a dispatched addMessage returns: callMessage.create
\* inserted the row.
WriteInsert ==
    /\ \E i \in InFlight \cap sink.found :
          LET c == sinkCalls[i]
              line == [role |-> c.role, content |-> c.content]
          IN  sink' = [Called(sink, "db", c.callSid, "addMessage", line) EXCEPT
                          !.db.messages =
                              Append(@, [callSid |-> c.callSid, role |-> c.role,
                                         content |-> c.content,
                                         timestamp |-> sink.clock]),
                          !.settled = @ \cup {i}]
    /\ UNCHANGED <<callVars, reg, web, iso>>

\* One call whose transcript writes run concurrently with the handlers and
\* with each other.
RaceNext ==
    \/ (nEvents < MaxRaceEvents /\ ModelMessage)
    \/ (nEvents < MaxRaceEvents /\ CarrierStart)
    \/ (NoCallStored /\ PersistStartCall)
    \/ WriteLookup
    \/ WriteInsert
    \/ PersistRead
    \/ ClockTick

RaceSpec == Init /\ [][RaceNext]_vars

(* ------------------------ two sessions side by side ------------------ *)

\* The messages delivered to the two sessions.
IsoMessages ==
    { [wellFormed |-> FALSE, response |-> NoResponse] }
    \cup
    { [wellFormed |-> TRUE, response |-> r] :
        r \in { x \in Responses :
                  /\ x.transcript \in {"", "goodbye"}
                  /\ x.delta \in {"", "A"}
                  /\ x.item_id \in {"", "abc"}
                  /\ x.type # "response.done" } }

\* What the handlers of session s work on: the session's own sockets and
\* outputs, and the CallState its event processor was constructed with.
ViewOf(i, s) ==
    [i.worlds[s] EXCEPT !.callState = i.worlds[i.refs[s]].callState,
                        !.fx = <<>>]

\* The handlers of session s have run and left w.
IsoStep(i, s, w, kind) ==
    LET own == [i.worlds EXCEPT ![s] = [w EXCEPT !.callState = i.worlds[s].callState]]
    IN  [i EXCEPT !.worlds = [own EXCEPT ![i.refs[s]].callState = w.callState],
                  !.last = [session |-> s, kind |-> kind],
                  !.nSteps = @ + 1]

IsoModelMessage ==
    /\ iso.nSteps < MaxIsoSteps
    /\ \E s \in SessionNames, data \in IsoMessages :
          /\ iso.worlds[s].session.openaiSocket = "open"
          /\ iso' = IsoStep(iso, s, ProcessMessage(ViewOf(iso, s), data), "model")
    /\ UNCHANGED <<callVars, sink, reg, web>>

IsoCarrierStart ==
    /\ iso.nSteps < MaxIsoSteps
    /\ \E s \in SessionNames :
          /\ iso.worlds[s].session.twilioSocket = "open"
          /\ ViewOf(iso, s).callState.streamSid = ""
          /\ iso' = IsoStep(iso, s,
                            OnCarrierStartFor(ViewOf(iso, s), SidOf[s], TheStreamSid),
                            "start")
    /\ UNCHANGED <<callVars, sink, reg, web>>

IsoCarrierMedia ==
    /\ iso.nSteps < MaxIsoSteps
    /\ \E s \in SessionNames, timestamp \in Timestamps :
          /\ iso.worlds[s].session.twilioSocket = "open"
          /\ ViewOf(iso, s).callState.streamSid # ""
          /\ timestamp >= ViewOf(iso, s).callState.latestMediaTimestamp
          /\ iso' = IsoStep(iso, s, OnCarrierMedia(ViewOf(iso, s), "A", timestamp),
                            "media")
    /\ UNCHANGED <<callVars, sink, reg, web>>

IsoCarrierStop ==
    /\ iso.nSteps < MaxIsoSteps
    /\ \E s \in SessionNames :
          /\ iso.worlds[s].session.twilioSocket = "open"
          /\ iso' = IsoStep(iso, s, OnCarrierStop(ViewOf(iso, s)), "stop")
    /\ UNCHANGED <<callVars, sink, reg, web>>

\* A socket of one session closes or fails.
IsoSocketGone ==
    /\ iso.nSteps < MaxIsoSteps
    /\ \E s \in SessionNames, socket \in {"twilioSocket", "openaiSocket"} :
          /\ iso.worlds[s].session[socket] = "open"
          /\ iso' = IsoStep(iso, s, OnSocketGone(ViewOf(iso, s), socket), "gone")
    /\ UNCHANGED <<callVars, sink, reg, web>>

IsoRunEndCall ==
    /\ \E s \in SessionNames :
          /\ iso.worlds[s].session.pendingEndCalls > 0
          /\ iso' = [IsoStep(iso, s,
                             EndCall([ViewOf(iso, s) EXCEPT
                                         !.session.pendingEndCalls = @ - 1]),
                             "endCall")
                        EXCEPT !.nSteps = iso.nSteps]
    /\ UNCHANGED <<callVars, sink, reg, web>>

\* A transcript sink call made for the call of one session reaches both
\* sinks.
IsoSinkCall ==
    /\ iso.nSteps < MaxIsoSteps
    /\ \E s \in SessionNames, op \in {"startCall", "addMessage", "endCall"} :
          /\ iso' = [iso EXCEPT !.last = [session |-> s, kind |-> op],
                                !.nSteps = @ + 1]
          /\ sink' =
                [sink EXCEPT
                   !.store =
                      CASE op = "startCall" -> TranscriptStore_StartCall(@, SidOf[s])
                        [] op = "addMessage" ->
                              TranscriptStore_AddMessage(@, SidOf[s], "user", "hello")
                        [] OTHER -> TranscriptStore_EndCall(@, SidOf[s], sink.clock),
                   !.db =
                      CASE op = "startCall" ->
                              CallPersistence_StartCall(@, "u1", SidOf[s], sink.clock)
                        [] op = "addMessage" ->
                              CallPersistence_AddMessage(@, SidOf[s], "user", "hello",
                                                         sink.clock)
                        [] OTHER -> CallPersistence_EndCall(@, SidOf[s], sink.clock)]
    /\ UNCHANGED <<callVars, reg, web>>

IsoNext ==
    \/ IsoModelMessage
    \/ IsoCarrierStart
    \/ IsoCarrierMedia
    \/ IsoCarrierStop
    \/ IsoSocketGone
    \/ IsoRunEndCall
    \/ IsoSinkCall

IsoSpec == Init /\ [][IsoNext]_vars

(* ----------------------------- login sessions ------------------------ *)

\* createSession(userId): a new row with a fresh id, expiring
\* SESSION_DURATION after now.
CreateSession(a, userId) ==
    [a EXCEPT !.sessions[a.nextId] =
                  [userId |-> userId, expiresAt |-> a.now + SESSION_DURATION,
                   lastAccess |-> a.now],
              !.nextId = @ + 1]

\* session.expiresAt < new Date()
IsExpired(row, now) == row.expiresAt < now

\* validateSession(sessionId), up to the return of findUnique.
ValidateLookup(a, r, id) ==
    [a EXCEPT !.pending[r] = [id |-> id, found |-> a.sessions[id]]]

\* validateSession(sessionId), from the return of findUnique to the end:
\* null when no row was found; for an expired row session.delete, then null;
\* otherwise session.update of lastAccess, then the user. session.delete and
\* session.update reject when the row is no longer there, and validateSession
\* rejects with them.
ValidateFinish(a, r) ==
    LET p == a.pending[r]
        gone == a.sessions[p.id] = NoLogin
        done == [a EXCEPT !.pending[r] = NoPending, !.nDone = @ + 1]
        out(result, user) ==
            [id |-> p.id, result |-> result, user |-> user, found |-> p.found]
    IN  IF p.found = NoLogin
        THEN [done EXCEPT !.last = out("null", NoUser)]
        ELSE IF IsExpired(p.found, a.now)
        THEN IF gone
             THEN [done EXCEPT !.last = out("rejected", NoUser)]
             ELSE [done EXCEPT !.sessions[p.id] = NoLogin,
                               !.expired = @ \cup {p.id},
                               !.last = out("null", NoUser)]
        ELSE IF gone
             THEN [done EXCEPT !.last = out("rejected", NoUser)]
             ELSE [done EXCEPT !.sessions[p.id].lastAccess = a.now,
                               !.last = out("user", p.found.userId)]

\* deleteSession(sessionId): a missing row is ignored.
DeleteSession(a, id) == [a EXCEPT !.sessions[id] = NoLogin]

\* cleanupExpiredData(): deleteMany of the sessions with expiresAt < now.
CleanupExpiredData(a) ==
    [a EXCEPT !.sessions =
        [i \in LoginIds |->
            IF @[i] # NoLogin /\ @[i].expiresAt < a.now THEN NoLogin ELSE @[i]]]

AuthOp(a) ==
    /\ web' = [web EXCEPT !.auth = [a EXCEPT !.nOps = @ + 1]]
    /\ UNCHANGED <<callVars, sink, reg, iso>>

\* A login or registration creates a session.
AuthCreateSession ==
    /\ web.auth.nextId <= MaxLogins
    /\ \E u \in Users : AuthOp(CreateSession(web.auth, u))

\* A request with a session cookie starts validateSession.
AuthValidateLookup ==
    /\ web.auth.nOps < MaxAuthOps + MaxLogins
    /\ \E r \in Requests, id \in LoginIds :
          /\ web.auth.pending[r] = NoPending
          /\ AuthOp(ValidateLookup(web.auth, r, id))

\* The validateSession of a request runs to its end.
AuthValidateFinish ==
    \E r \in Requests :
       /\ web.auth.pending[r] # NoPending
       /\ web' = [web EXCEPT !.auth = ValidateFinish(web.auth, r)]
       /\ UNCHANGED <<callVars, sink, reg, iso>>

\* A logout deletes a session.
AuthLogout ==
    /\ web.auth.nOps < MaxAuthOps + MaxLogins
    /\ \E id \in LoginIds : AuthOp(DeleteSession(web.auth, id))

\* The periodic cleanup runs.
AuthCleanup ==
    /\ web.auth.nOps < MaxAuthOps + MaxLogins
    /\ AuthOp(CleanupExpiredData(web.auth))

AuthTick ==
    /\ web.auth.now < MaxNow
    /\ web' = [web EXCEPT !.auth.now = @ + 1]
    /\ UNCHANGED <<callVars, sink, reg, iso>>

AuthNext ==
    \/ AuthCreateSession
    \/ AuthValidateLookup
    \/ AuthValidateFinish
    \/ AuthLogout
    \/ AuthCleanup
    \/ AuthTick

AuthSpec == Init /\ [][AuthNext]_vars

(* ------------------------------ MCP sessions ------------------------- *)

\* createMcpServerForUser(user): the tools of the server act for user.
CreateMcpServerForUser(user) == user

\* app.post('/mcp'): user is the user of the request's OAuth session (NoUser:
\* getMcpSession returned null), sid its mcp-session-id header.
McpPost(m, user, sid, isInitialize) ==
    LET answered(status, actsFor) ==
            [m EXCEPT !.last = [requester |-> user, sid |-> sid,
                                status |-> status, actsFor |-> actsFor],
                      !.nReq = @ + 1]
    IN  IF user = NoUser
        THEN answered(401, NoUser)
        ELSE IF sid # 0 /\ m.transports[sid]
        THEN answered(200, m.servers[sid])
        ELSE IF sid = 0 /\ isInitialize
        THEN [answered(200, CreateMcpServerForUser(user)) EXCEPT
                 !.transports[m.nextSid] = TRUE,
                 !.servers[m.nextSid] = CreateMcpServerForUser(user),
                 !.initialized = @ \cup {m.nextSid},
                 !.nextSid = @ + 1]
        ELSE answered(400, NoUser)

\* transport.onclose
McpOnClose(m, sid) ==
    [m EXCEPT !.transports[sid] = FALSE,
              !.servers[sid] = Absent,
              !.closed = @ \cup {sid}]

McpRequest ==
    /\ web.mcp.nReq < MaxMcpOps
    /\ \E user \in Users \cup {NoUser}, sid \in McpIds \cup {0},
          isInitialize \in BOOLEAN :
          /\ (user # NoUser /\ sid = 0 /\ isInitialize) =>
                web.mcp.nextSid <= MaxMcpSessions
          /\ web' = [web EXCEPT !.mcp = McpPost(web.mcp, user, sid, isInitialize)]
    /\ UNCHANGED <<callVars, sink, reg, iso>>

McpClose ==
    /\ \E sid \in McpIds :
          /\ web.mcp.transports[sid]
          /\ web' = [web EXCEPT !.mcp = McpOnClose(web.mcp, sid)]
    /\ UNCHANGED <<callVars, sink, reg, iso>>

McpNext ==
    \/ McpRequest
    \/ McpClose

McpSpec == Init /\ [][McpNext]_vars

(* --------------------------- call origination ------------------------- *)

\* Variant: a rejected request is sent once more.
MakeCall_Retry(o, sid) ==
    IF o.callbackUrl = ""
    THEN [origin |-> o, threw |-> TRUE, sid |-> ""]
    ELSE IF sid = ""
    THEN [origin |-> [o EXCEPT !.requests = @ + 2], threw |-> TRUE, sid |-> ""]
    ELSE [origin |-> [o EXCEPT !.requests = @ + 1, !.placed = @ \cup {sid}],
          threw |-> FALSE, sid |-> sid]

\* TwilioCallService.makeCall: throws without a request when callbackUrl is
\* not set; otherwise one calls.create, whose rejection (sid = "") is
\* rethrown and whose result is the created call.
MakeCall(o, sid) ==
    IF o.callbackUrl = ""
    THEN [origin |-> o, threw |-> TRUE, sid |-> ""]
    ELSE IF sid = ""
    THEN [origin |-> [o EXCEPT !.requests = @ + 1], threw |-> TRUE, sid |-> ""]
    ELSE [origin |-> [o EXCEPT !.requests = @ + 1, !.placed = @ \cup {sid}],
          threw |-> FALSE, sid |-> sid]

\* The trigger-call tool handler of user's MCP server: makeCall, then
\* callPersistenceService.startCall, inside one try block.  sid is the
\* carrier's answer to a request, dbUp whether the database accepts the
\* create.
TriggerCallTool(x, user, sid, dbUp, now) ==
    IF x.origin.service = "none"
    THEN [x EXCEPT !.origin.last = [NoResult EXCEPT !.result = "error", !.user = user],
                   !.origin.nCalls = @ + 1]
    ELSE LET m == MakeCall(x.origin, sid)
             made == m.origin.requests - x.origin.requests
         IN  IF m.threw
             THEN [x EXCEPT !.origin =
                      [m.origin EXCEPT
                          !.last = [result |-> "error", callSid |-> "", user |-> user,
                                    requestsMade |-> made, placed |-> ""],
                          !.nCalls = @ + 1]]
             ELSE IF ~dbUp \/ x.db.calls[m.sid] # Absent
             THEN [x EXCEPT !.origin =
                      [m.origin EXCEPT
                          !.last = [result |-> "error", callSid |-> "", user |-> user,
                                    requestsMade |-> made, placed |-> m.sid],
                          !.nCalls = @ + 1]]
             ELSE [origin |->
                      [m.origin EXCEPT
                          !.last = [result |-> "success", callSid |-> m.sid,
                                    user |-> user, requestsMade |-> made,
                                    placed |-> m.sid],
                          !.nCalls = @ + 1],
                   db |-> CallPersistence_StartCall(x.db, user, m.sid, now)]

\* The voice server is up: twilioCallService is assigned.
VoiceServerReady ==
    /\ web.origin.service = "none"
    /\ web' = [web EXCEPT !.origin.service = "ready"]
    /\ UNCHANGED <<callVars, sink, reg, iso>>

\* The public URL is known: setCallbackUrl(url).
SetCallbackUrl ==
    /\ web.origin.service = "ready"
    /\ web.origin.callbackUrl = ""
    /\ web' = [web EXCEPT !.origin.callbackUrl = "https://cb"]
    /\ UNCHANGED <<callVars, sink, reg, iso>>

\* A user invokes the trigger-call tool; the carrier answers a request with
\* a new call identifier or rejects it.
TriggerCall ==
    /\ web.origin.nCalls < MaxTriggerCalls
    /\ \E user \in Users, dbUp \in BOOLEAN,
          sid \in (CallSids \ web.origin.placed) \cup {""} :
          LET x == TriggerCallTool([origin |-> web.origin, db |-> sink.db],
                                   user, sid, dbUp, sink.clock)
          IN  /\ web' = [web EXCEPT !.origin = x.origin]
              /\ sink' = [sink EXCEPT !.db = x.db]
    /\ UNCHANGED <<callVars, reg, iso>>

OriginNext ==
    \/ VoiceServerReady
    \/ SetCallbackUrl
    \/ TriggerCall

OriginSpec == Init /\ [][OriginNext]_vars

(* --------------------------- SessionRegistry -------------------------- *)

\* SessionRegistry.lookup(callId): the session registered for callId, if any.
Lookup(r, callId) ==
    IF \E e \in r.entries : e[1] = callId
    THEN (CHOOSE e \in r.entries : e[1] = callId)[2]
    ELSE NoSession

\* Variant: registers without looking for an existing entry.
Register_NoCheck(r, callId, sid) ==
    [r EXCEPT !.entries = @ \cup {<<callId, sid>>}, !.created = sid]

\* SessionRegistry.register(callId, session): fails, leaving the registry as
\* it is, when callId is present.
Register(r, callId, sid) ==
    IF Lookup(r, callId) # NoSession
    THEN r
    ELSE [r EXCEPT !.entries = @ \cup {<<callId, sid>>}, !.created = sid]

\* SessionRegistry.remove(callId): a no-op when callId is absent.
Remove(r, callId) ==
    IF Lookup(r, callId) = NoSession
    THEN r
    ELSE [r EXCEPT !.entries = @ \ {<<callId, Lookup(r, callId)>>},
                   !.removed = @ \cup {Lookup(r, callId)}]

\* Variant: a frame for an unknown call starts a session for it.
RouteFrame_CreatesSession(r, callId, payload) ==
    IF Lookup(r, callId) = NoSession
    THEN [Register(r, callId, r.created + 1) EXCEPT
             !.forwarded[r.created + 1] = Append(@, payload)]
    ELSE [r EXCEPT !.forwarded[Lookup(r, callId)] = Append(@, payload)]

\* An inbound carrier media frame is routed by callId: forwarded to the model
\* connection of the session registered for it, or logged and dropped.
RouteFrame(r, callId, payload) ==
    IF Lookup(r, callId) = NoSession
    THEN [r EXCEPT !.dropped = @ + 1]
    ELSE [r EXCEPT !.forwarded[Lookup(r, callId)] = Append(@, payload)]

RegOp(r, op, callId, result) ==
    [r EXCEPT !.lastOp = [op |-> op, callId |-> callId, result |-> result],
              !.nOps = @ + 1]

\* A carrier stream starts for callId: a session is created and registered.
RegRegister ==
    /\ reg.nOps < MaxRegOps
    /\ reg.created < MaxSessions
    /\ \E callId \in CallSids :
          LET r == Register(reg, callId, reg.created + 1)
          IN  reg' = RegOp(r, "register", callId,
                           IF r = reg THEN NoSession ELSE reg.created + 1)
    /\ UNCHANGED <<callVars, sink, web, iso>>

RegLookup ==
    /\ reg.nOps < MaxRegOps
    /\ \E callId \in CallSids :
          reg' = RegOp(reg, "lookup", callId, Lookup(reg, callId))
    /\ UNCHANGED <<callVars, sink, web, iso>>

\* A session's endCall removes it from the registry.
RegRemove ==
    /\ reg.nOps < MaxRegOps
    /\ \E callId \in CallSids :
          reg' = RegOp(Remove(reg, callId), "remove", callId, Lookup(reg, callId))
    /\ UNCHANGED <<callVars, sink, web, iso>>

RegFrame ==
    /\ reg.nOps < MaxRegOps
    /\ \E callId \in CallSids, payload \in Payloads \ {""} :
          reg' = RegOp(RouteFrame(reg, callId, payload), "frame", callId,
                       Lookup(reg, callId))
    /\ UNCHANGED <<callVars, sink, web, iso>>

RegNext ==
    \/ RegRegister
    \/ RegLookup
    \/ RegRemove
    \/ RegFrame

RegSpec == Init /\ [][RegNext]_vars

(* ======================= checked properties =========================== *)

\* The message handled by the step leading to state-pair's second state.
IsModelEvent(ev, type) ==
    ev.kind = "model" /\ ev.msg.wellFormed /\ ev.msg.response.type = type

Last(seq) == seq[Len(seq)]

CountOp(calls, op) == Cardinality({ i \in 1..Len(calls) : calls[i].op = op })

ResponseActive ==
    /\ callState.responseStartTimestampTwilio # Null
    /\ callState.lastAssistantItemId # ""

\* C1: a speech_started event processed while a response is active
\* (responseStartTimestamp = T, activeResponseItemId = I) at
\* latestMediaTimestamp = L emits exactly one truncate instruction, for I, with
\* elapsed = max(0, L - T), and leaves both fields unset.
C1_BargeInTruncation ==
    [][ (IsModelEvent(lastEvent', "input_audio_buffer.speech_started") /\ ResponseActive)
        => /\ openaiOut' =
                Append(openaiOut,
                       [op |-> "truncate",
                        item_id |-> callState.lastAssistantItemId,
                        elapsed |-> Max(0, callState.latestMediaTimestamp
                                           - callState.responseStartTimestampTwilio),
                        payload |-> ""])
           /\ callState'.responseStartTimestampTwilio = Null
           /\ callState'.lastAssistantItemId = "" ]_vars

\* A barge-in has just truncated item "abc" after a positive elapsed time.
C1_Witness ==
    /\ IsModelEvent(lastEvent, "input_audio_buffer.speech_started")
    /\ fx = <<"truncate">>
    /\ Len(openaiOut) > 0
    /\ Last(openaiOut).op = "truncate"
    /\ Last(openaiOut).item_id = "abc"
    /\ Last(openaiOut).elapsed = MaxTs
    /\ callState.responseStartTimestampTwilio = Null
    /\ callState.lastAssistantItemId = ""

\* C2: a speech_started event processed while no response is active emits no
\* truncate instruction and no clear frame and leaves the call state unchanged.
C2_SpeechStartedNoOp ==
    [][ (IsModelEvent(lastEvent', "input_audio_buffer.speech_started") /\ ~ResponseActive)
        => /\ openaiOut' = openaiOut
           /\ twilioOut' = twilioOut
           /\ callState' = callState ]_vars

\* A second speech_started right after a truncation: the clear frame of the
\* truncation is still the last frame sent to the carrier.
C2_Witness ==
    /\ IsModelEvent(lastEvent, "input_audio_buffer.speech_started")
    /\ fx = <<>>
    /\ Len(twilioOut) > 0
    /\ Last(twilioOut).event = "clear"
    /\ CountOp(openaiOut, "truncate") = 1

\* C3: whatever termination triggers occur, and however often endCall runs, the
\* TranscriptSink gets exactly one endCall notification and the session leaves
\* the registry exactly once (none of either before endCall has run).
C3_EndCallIdempotent ==
    LET expected == IF session.endCallInvocations > 0 THEN 1 ELSE 0
    IN  /\ CountOp(sinkCalls, "endCall") = expected
        /\ session.removals = expected
        /\ session.registered <=> (expected = 0)

\* endCall has run at least three times, two of them from goodbye matches.
C3_Witness ==
    /\ session.endCallInvocations >= 3
    /\ session.pendingEndCalls = 0
    /\ Cardinality({ i \in 1..Len(callState.conversationHistory) :
                        CheckForGoodbye(callState.conversationHistory[i].content) }) >= 2
    /\ CountOp(sinkCalls, "endCall") = 1
    /\ session.removals = 1

Terminated ==
    /\ session.twilioSocket = "closed"
    /\ session.openaiSocket = "closed"
    /\ callState.status = "completed"
    /\ CountOp(sinkCalls, "endCall") >= 1
    /\ ~session.registered

\* C4: once a termination trigger has occurred (carrier stop, close or error
\* of either socket, goodbye match) the session eventually has both sockets
\* closed, status completed, the sink notified and no registry entry.
C4_TerminationLiveness == session.triggered ~> Terminated

\* A goodbye match has been followed by the complete teardown.
C4_Witness ==
    /\ Terminated
    /\ session.triggered
    /\ lastEvent.kind = "endCall"
    /\ session.pendingEndCalls = 0
    /\ \E i \in 1..Len(callState.conversationHistory) :
          CheckForGoodbye(callState.conversationHistory[i].content)

\* C5: a response.audio.delta event with a payload relays the payload to the
\* carrier exactly once and, if responseStartTimestamp was unset, sets it to
\* latestMediaTimestamp and sets activeResponseItemId to the event's item id.
C5_AudioDelta ==
    [][ (IsModelEvent(lastEvent', "response.audio.delta")
            /\ lastEvent'.msg.response.delta # "")
        => /\ twilioOut' =
                Append(twilioOut, [event |-> "media",
                                   payload |-> lastEvent'.msg.response.delta])
           /\ (callState.responseStartTimestampTwilio = Null
                 => /\ callState'.responseStartTimestampTwilio =
                          callState.latestMediaTimestamp
                    /\ callState'.lastAssistantItemId =
                          lastEvent'.msg.response.item_id) ]_vars

\* The first delta of the call, for item "abc", arrived at a positive carrier
\* timestamp.
C5_Witness ==
    /\ IsModelEvent(lastEvent, "response.audio.delta")
    /\ lastEvent.msg.response.item_id = "abc"
    /\ twilioOut = <<[event |-> "media", payload |-> "A"]>>
    /\ callState.latestMediaTimestamp = MaxTs
    /\ callState.responseStartTimestampTwilio = MaxTs
    /\ callState.lastAssistantItemId = "abc"

\* C6: in every reachable state responseStartTimestamp is set if and only if
\* activeResponseItemId is set.
C6_SetTogether ==
    (callState.responseStartTimestampTwilio # Null)
        <=> (callState.lastAssistantItemId # "")

\* C7: responseStartTimestamp takes the value of latestMediaTimestamp at the
\* first audio delta of a response, no later delta of that response changes
\* it, and only a truncation clears it.
C7_SetOncePerResponse ==
    [][ /\ (IsModelEvent(lastEvent', "response.audio.delta")
              /\ lastEvent'.msg.response.delta # "")
           => callState'.responseStartTimestampTwilio =
                 IF callState.responseStartTimestampTwilio = Null
                 THEN callState.latestMediaTimestamp
                 ELSE callState.responseStartTimestampTwilio
        /\ (callState.responseStartTimestampTwilio # Null
              /\ callState'.responseStartTimestampTwilio = Null)
           => IsModelEvent(lastEvent', "input_audio_buffer.speech_started") ]_vars

\* C8: conversationHistory is append-only: across every step the old history
\* is a prefix of the new one.
C8_HistoryAppendOnly ==
    [][ IsPrefix(callState.conversationHistory,
                 callState'.conversationHistory) ]_vars

\* Lines of both roles have been appended.
C8_Witness ==
    /\ Len(callState.conversationHistory) >= 3
    /\ \E i, j \in 1..Len(callState.conversationHistory) :
          /\ i < j
          /\ callState.conversationHistory[i].role = "assistant"
          /\ callState.conversationHistory[j].role = "user"

RoleOf(type) ==
    IF type = "conversation.item.input_audio_transcription.completed"
    THEN "user" ELSE "assistant"

RECURSIVE ExpectedHistory(_)
ExpectedHistory(evs) ==
    IF evs = <<>> THEN <<>>
    ELSE LET e == evs[Len(evs)]
             rest == ExpectedHistory(SubSeq(evs, 1, Len(evs) - 1))
         IN  IF e.transcript = "" THEN rest
             ELSE Append(rest, [role |-> RoleOf(e.type), content |-> e.transcript])

\* C9: conversationHistory holds exactly one {user, t} per
\* transcription.completed event with text t and one {assistant, t} per
\* response.audio_transcript.done event with text t, in the order the events
\* were received, and nothing else.
C9_HistoryMirrorsEvents ==
    callState.conversationHistory = ExpectedHistory(received)

\* An assistant line and then a caller line were received, with other events
\* around them.
C9_Witness ==
    /\ Len(received) >= 3
    /\ callState.conversationHistory =
          <<[role |-> "assistant", content |-> "hello"],
            [role |-> "user", content |-> "goodbye"]>>
    /\ Len(twilioOut) > 0

LastIsTranscriptLine ==
    /\ lastEvent.kind = "model"
    /\ IsTranscriptEvent(lastEvent.msg)
    /\ lastEvent.msg.response.transcript # ""

LastLine ==
    [role |-> RoleOf(lastEvent.msg.response.type),
     content |-> lastEvent.msg.response.transcript]

\* C10 as stated: a matching line triggers endCall after the line is in
\* conversationHistory and its persistence has been dispatched; a line that
\* does not match never triggers endCall.
C10_GoodbyeAfterPersist ==
    LastIsTranscriptLine =>
        IF CheckForGoodbye(LastLine.content)
        THEN /\ fx = <<"push", "addMessage", "onEndCall">>
             /\ Last(callState.conversationHistory) = LastLine
        ELSE \A i \in 1..Len(fx) : fx[i] # "onEndCall"

\* C10, amended: a matching line triggers endCall after the line is in
\* conversationHistory and, when the session has a callSid, after addMessage
\* for that line has been dispatched; without a callSid nothing is dispatched
\* and endCall is triggered all the same.  A line that does not match never
\* triggers endCall.
C10_GoodbyeAfterPersistIfCallSid ==
    LastIsTranscriptLine =>
        IF CheckForGoodbye(LastLine.content)
        THEN /\ Last(callState.conversationHistory) = LastLine
             /\ IF callState.callSid # ""
                THEN /\ fx = <<"push", "addMessage", "onEndCall">>
                     /\ \E i \in 1..Len(sinkCalls) :
                           /\ sinkCalls[i] =
                                 [op |-> "addMessage", callSid |-> callState.callSid,
                                  role |-> LastLine.role, content |-> LastLine.content]
                           /\ \A j \in (i + 1)..Len(sinkCalls) :
                                 sinkCalls[j].op # "addMessage"
                ELSE fx = <<"push", "onEndCall">>
             /\ session.pendingEndCalls > 0
        ELSE \A i \in 1..Len(fx) : fx[i] # "onEndCall"

\* The caller said goodbye on a call that has its callSid.
C10_Witness ==
    /\ LastIsTranscriptLine
    /\ LastLine = [role |-> "user", content |-> "goodbye"]
    /\ callState.callSid = TheCallSid
    /\ fx = <<"push", "addMessage", "onEndCall">>

RECURSIVE PayloadsOf(_, _, _)
\* The payloads of the entries of seq whose field `key` equals `val`, in order.
PayloadsOf(seq, key, val) ==
    IF seq = <<>> THEN <<>>
    ELSE LET rest == PayloadsOf(SubSeq(seq, 1, Len(seq) - 1), key, val)
             e == seq[Len(seq)]
         IN  IF e[key] = val THEN Append(rest, e.payload) ELSE rest

\* C11: the audio payloads forwarded to the model are exactly the payloads of
\* the inbound carrier media frames, and the payloads sent to the carrier are
\* exactly the payloads of the model's audio deltas, each in arrival order.
C11_FifoRelay ==
    /\ PayloadsOf(openaiOut, "op", "append-audio") = audioIn.carrier
    /\ PayloadsOf(twilioOut, "event", "media") = audioIn.model

\* Two payloads have been relayed in each direction.
C11_Witness ==
    /\ audioIn.carrier = <<"A", "B">>
    /\ audioIn.model = <<"B", "A">>
    /\ Len(twilioOut) = 2
    /\ IsModelEvent(lastEvent, "response.audio.delta")

HandlersState == <<callState, session, twilioOut, openaiOut, sinkCalls>>

\* C12: a model message that cannot be decoded changes no call state, invokes
\* no callback, ends nothing, and every message handled afterwards has the
\* effect it would have had without it.
C12_MalformedDiscarded ==
    [][ (lastEvent'.kind = "model" /\ ~lastEvent'.msg.wellFormed)
        => /\ HandlersState' = HandlersState
           /\ fx' = <<>>
           /\ \A data \in Messages :
                 ProcessMessage(World, data)' = ProcessMessage(World, data) ]_vars

\* A malformed message arrived in the middle of a call with a response active.
C12_Witness ==
    /\ lastEvent.kind = "model"
    /\ ~lastEvent.msg.wellFormed
    /\ ResponseActive
    /\ Len(callState.conversationHistory) > 0
    /\ session.openaiSocket = "open"

HandledTypes ==
    { "conversation.item.input_audio_transcription.completed",
      "response.audio_transcript.done",
      "response.audio.delta",
      "input_audio_buffer.speech_started" }

\* C13: a well-formed event of any other kind (error events included) leaves
\* the call state unchanged and relays, truncates, writes and ends nothing.
C13_UnknownEventIgnored ==
    [][ (lastEvent'.kind = "model" /\ lastEvent'.msg.wellFormed
            /\ lastEvent'.msg.response.type \notin HandledTypes)
        => /\ HandlersState' = HandlersState
           /\ fx' = <<>> ]_vars

\* An error event arrived while a response was active.
C13_Witness ==
    /\ IsModelEvent(lastEvent, "error")
    /\ ResponseActive
    /\ session.openaiSocket = "open"

CountFrames(frames, event) ==
    Cardinality({ i \in 1..Len(frames) : frames[i].event = event })

\* C20: every step sends as many clear frames to the carrier as truncate
\* instructions to the model, at most one of each, and a step that truncates
\* leaves pendingPlaybackMarks empty.
C20_ClearIffTruncate ==
    [][ LET truncates == CountOp(openaiOut', "truncate") - CountOp(openaiOut, "truncate")
            clears == CountFrames(twilioOut', "clear") - CountFrames(twilioOut, "clear")
        IN  /\ truncates = clears
            /\ truncates \in {0, 1}
            /\ truncates = 1 => session'.pendingPlaybackMarks = <<>> ]_vars

\* A truncation ran while a checkpoint was outstanding.
C20_Witness ==
    /\ IsModelEvent(lastEvent, "input_audio_buffer.speech_started")
    /\ nEvents = 4
    /\ Len(twilioOut) = 3
    /\ twilioOut[1].event = "media"
    /\ twilioOut[2].event = "mark"
    /\ twilioOut[3].event = "clear"
    /\ CountOp(openaiOut, "truncate") = 1
    /\ session.pendingPlaybackMarks = <<>>

(* --------------------------- transcript sinks ------------------------- *)

\* The calls made for the identifier of the last read, on the sink read.
ReadTrace == sink.trace[sink.lastRead.sink][sink.lastRead.callSid]

\* C16: reading the transcript of id after startCall(id), N addMessage(id)
\* calls and endCall(id) yields the N lines of the calls, in call order, with
\* status completed.
C16_RoundTrip ==
    IF sink.lastRead.sink = "" THEN TRUE
    ELSE (/\ ReadTrace.shape = "ended"
          /\ sink.lastRead.sink = "db" =>
                sink.lastRead.user = sink.db.owner[sink.lastRead.callSid]) =>
            /\ sink.lastRead.status = "completed"
            /\ sink.lastRead.messages = ReadTrace.lines

\* C15: once the status of a call identifier is completed, in the session, in
\* the in-memory store or in the calls table, no step changes it.
C15_CompletedIsTerminal ==
    [][ /\ callState.status = "completed" => callState'.status = "completed"
        /\ \A c \in CallSids :
              /\ sink.store[c].status = "completed" =>
                    sink'.store[c].status = "completed"
              /\ sink.db.calls[c] = "completed" =>
                    sink'.db.calls[c] = "completed" ]_vars

\* C14: a handler that dispatches addMessage returns with the write still in
\* flight, the line in conversationHistory and the goodbye check done; a write
\* that fails changes nothing but the log: history, session, outputs and the
\* list of dispatched writes stay as they are, and every later message is
\* handled as it would have been.
C14_FireAndForget ==
    [][ /\ (lastEvent'.kind = "model" /\ Len(sinkCalls') > Len(sinkCalls)) =>
              /\ Len(sinkCalls') = Len(sinkCalls) + 1
              /\ Len(sinkCalls') \in InFlight'
              /\ Last(callState'.conversationHistory) =
                    [role |-> Last(sinkCalls').role, content |-> Last(sinkCalls').content]
              /\ CheckForGoodbye(Last(sinkCalls').content) =>
                    /\ Last(fx') = "onEndCall"
                    /\ session'.pendingEndCalls = session.pendingEndCalls + 1
        /\ sink'.logged > sink.logged =>
              /\ HandlersState' = HandlersState
              /\ fx' = <<>>
              /\ sink'.db = sink.db
              /\ InFlight' \subseteq InFlight
              /\ \A data \in Messages :
                    ProcessMessage(World, data)' = ProcessMessage(World, data) ]_vars

\* The write of a goodbye line failed while the call was running; the next
\* line was then recorded and its write dispatched.
C14_Witness ==
    /\ sink.logged = 1
    /\ sink.settled = {2}
    /\ InFlight = {3}
    /\ Len(callState.conversationHistory) = 2
    /\ callState.conversationHistory[1].content = "goodbye"
    /\ lastEvent.kind = "model"
    /\ ~session.ended

(* --------------------------- SessionRegistry -------------------------- *)

\* What a registry step leaves alone when it must have no effect.
Sessions == <<reg.entries, reg.created, reg.removed, reg.forwarded>>

\* C17: a frame for a callId with no registered session is dropped: no
\* session is created, the registry and every session are as before, and
\* nothing is forwarded to any model connection; the drop is logged.
C17_UnknownCallDropped ==
    [][ (reg'.lastOp.op = "frame" /\ Lookup(reg, reg'.lastOp.callId) = NoSession) =>
           /\ Sessions' = Sessions
           /\ reg'.dropped = reg.dropped + 1
           /\ callVars' = callVars ]_vars

\* A frame arrived for a call whose session had been removed, while another
\* session was registered and receiving audio.
C17_Witness ==
    /\ reg.lastOp.op = "frame"
    /\ reg.lastOp.result = NoSession
    /\ reg.dropped = 1
    /\ reg.removed # {}
    /\ \E e \in reg.entries : reg.forwarded[e[2]] # <<>>

\* C18: register on a present callId fails and keeps the registered session;
\* remove on an absent callId changes nothing; every callId has at most one
\* entry; lookup, and the routing of a frame, never yield a removed session.
C18_RegistrySafe ==
    [][ /\ (reg'.lastOp.op = "register" /\ Lookup(reg, reg'.lastOp.callId) # NoSession) =>
              /\ Sessions' = Sessions
              /\ reg'.lastOp.result = NoSession
        /\ (reg'.lastOp.op = "remove" /\ Lookup(reg, reg'.lastOp.callId) = NoSession) =>
              Sessions' = Sessions
        /\ \A e1, e2 \in reg'.entries : e1[1] = e2[1] => e1 = e2
        /\ reg'.lastOp.op = "lookup" => reg'.lastOp.result \notin reg'.removed
        /\ \A sid \in SessionIds :
              reg'.forwarded[sid] # reg.forwarded[sid] => sid \notin reg.removed ]_vars

\* A duplicate register failed for a callId that had been registered,
\* removed and registered again.
C18_Witness ==
    /\ reg.lastOp = [op |-> "register", callId |-> TheCallSid, result |-> NoSession]
    /\ reg.entries = {<<TheCallSid, 2>>}
    /\ reg.removed = {1}

(* ------------------- call identifier and empty events ----------------- *)

\* C23: every addMessage call issued carries a non-empty callSid, and a step
\* taken while callSid is unset issues none.
C23_NoWriteBeforeCallSid ==
    [][ /\ \A i \in 1..Len(sinkCalls') :
              sinkCalls'[i].op = "addMessage" => sinkCalls'[i].callSid # ""
        /\ callState.callSid = "" /\ lastEvent'.kind = "model" =>
              CountOp(sinkCalls', "addMessage") = CountOp(sinkCalls, "addMessage") ]_vars

\* A line arrived before the call identifier was assigned and was not saved;
\* a line that arrived after was saved under the identifier.
C23_Witness ==
    /\ Len(callState.conversationHistory) = 2
    /\ CountOp(sinkCalls, "addMessage") = 1
    /\ Last(sinkCalls).op = "addMessage"
    /\ Last(sinkCalls).callSid = TheCallSid
    /\ Last(sinkCalls).content = Last(callState.conversationHistory).content

\* The step handled a transcript event without text or an audio delta without
\* audio.
EmptyEvent(ev) ==
    /\ ev.kind = "model"
    /\ ev.msg.wellFormed
    /\ \/ /\ ev.msg.response.type \in
                 { "conversation.item.input_audio_transcription.completed",
                   "response.audio_transcript.done" }
          /\ ev.msg.response.transcript = ""
       \/ /\ ev.msg.response.type = "response.audio.delta"
          /\ ev.msg.response.delta = ""

\* C27: a transcript event with an empty or missing transcript, and an audio
\* delta with an empty or missing delta, change nothing and have no effect:
\* no line, no addMessage, no goodbye check, no relay, no response bookkeeping.
C27_EmptyEventNoOp ==
    [][ EmptyEvent(lastEvent') =>
           /\ HandlersState' = HandlersState
           /\ fx' = <<>> ]_vars

\* A delta without audio named another item than the one being played.
C27_Witness ==
    /\ IsModelEvent(lastEvent, "response.audio.delta")
    /\ lastEvent.msg.response.delta = ""
    /\ lastEvent.msg.response.item_id = "abc"
    /\ callState.lastAssistantItemId = "def"
    /\ callState.responseStartTimestampTwilio # Null
    /\ callState.callSid # ""

(* ------------------------- transcript ownership ----------------------- *)

\* C24: whatever getTranscript, getLatestTranscript and getRecentCalls return
\* to user u belongs to u; getTranscript(callSid, u) returns a transcript
\* exactly when the call exists and its userId is u, and then that call's.
C24_OwnTranscriptsOnly ==
    /\ \A c \in sink.lastQuery.returned :
          /\ sink.db.calls[c] # Absent
          /\ sink.db.owner[c] = sink.lastQuery.user
    /\ sink.lastQuery.op = "getTranscript" =>
          sink.lastQuery.returned =
             IF /\ sink.db.calls[sink.lastQuery.callSid] # Absent
                /\ sink.db.owner[sink.lastQuery.callSid] = sink.lastQuery.user
             THEN {sink.lastQuery.callSid}
             ELSE {}

\* A user asked for the transcript of another user's call, which has a
\* message, and got nothing.
C24_Witness ==
    /\ sink.lastQuery.op = "getTranscript"
    /\ sink.lastQuery.user = "u1"
    /\ sink.db.owner[sink.lastQuery.callSid] = "u2"
    /\ MessagesOf(sink.db.messages, sink.lastQuery.callSid) # <<>>
    /\ sink.db.owner[TheCallSid] = "u1"
    /\ sink.lastQuery.returned = {}

(* --------------------------- call origination ------------------------- *)

\* C22: an invocation of trigger-call makes at most one request to the
\* carrier and ends in a success carrying the identifier of the call created
\* or in an error; without a service or a callback URL, no request is made
\* and the result is an error; a rejected request is the only one made and
\* the result is an error.
C22_OneRequestNoRetry ==
    [][ web'.origin.nCalls = web.origin.nCalls + 1 =>
          LET last == web'.origin.last
              made == web'.origin.requests - web.origin.requests
          IN  /\ made \in {0, 1}
              /\ made = last.requestsMade
              /\ last.result \in {"success", "error"}
              /\ last.result = "success" =>
                    /\ made = 1
                    /\ last.callSid # ""
                    /\ web'.origin.placed = web.origin.placed \cup {last.callSid}
              /\ (web.origin.service = "none" \/ web.origin.callbackUrl = "") =>
                    /\ made = 0
                    /\ last.result = "error"
              /\ web'.origin.placed = web.origin.placed =>
                    last.result = "error" ]_vars

\* After a call had been placed, the carrier rejected the request of another
\* invocation: one request, an error, no further request.
C22_Witness ==
    /\ web.origin.last.result = "error"
    /\ web.origin.last.requestsMade = 1
    /\ web.origin.last.placed = ""
    /\ web.origin.requests = 2
    /\ Cardinality(web.origin.placed) = 1

\* C29: after a success result the call was placed and its row exists with
\* the returned callSid, the requesting user and status in_progress; after
\* an error result the invocation placed no call; every placed call has a
\* row.
C29_OutcomeMatchesEffects ==
    LET last == web.origin.last
    IN  /\ last.result = "success" =>
              /\ last.callSid \in web.origin.placed
              /\ sink.db.calls[last.callSid] = "in_progress"
              /\ sink.db.owner[last.callSid] = last.user
        /\ last.result = "error" => last.placed = ""
        /\ \A c \in web.origin.placed : sink.db.calls[c] # Absent

(* --------------------- concurrent transcript writes ------------------- *)

RECURSIVE IsSubsequence(_, _)
\* a can be obtained from b by leaving elements out.
IsSubsequence(a, b) ==
    IF a = <<>> THEN TRUE
    ELSE IF b = <<>> THEN FALSE
    ELSE IF Head(a) = Head(b) THEN IsSubsequence(Tail(a), Tail(b))
    ELSE IsSubsequence(a, Tail(b))

\* The rows stored for callSid carry pairwise different timestamps.
DistinctTimestamps(callSid) ==
    LET rows == MessagesOf(sink.db.messages, callSid)
    IN  \A i, j \in 1..Len(rows) : i # j => rows[i].timestamp # rows[j].timestamp

\* C25: the messages of the call, read back by its owner, appear in the
\* order of conversationHistory, however the lookups and inserts of the
\* dispatched addMessage calls interleave (even when no two rows share a
\* timestamp).
C25_PersistedOrder ==
    (/\ sink.lastRead.sink = "db"
     /\ sink.lastRead.callSid = callState.callSid
     /\ sink.lastRead.user = sink.db.owner[sink.lastRead.callSid]
     /\ DistinctTimestamps(sink.lastRead.callSid))
    => IsSubsequence(sink.lastRead.messages, callState.conversationHistory)

(* ------------------------- completed transcripts ---------------------- *)

\* C26: once a call is completed in a sink, with its end time recorded, no
\* step adds a message to it, and a step that leaves it completed leaves its
\* end time as recorded.
C26_CompletedIsFinal ==
    [][ \A c \in CallSids :
          /\ sink.store[c].status = "completed" =>
                /\ Len(sink'.store[c].messages) <= Len(sink.store[c].messages)
                /\ sink'.store[c].status = "completed" =>
                      sink'.store[c].endTime = sink.store[c].endTime
          /\ sink.db.calls[c] = "completed" =>
                /\ Len(MessagesOf(sink'.db.messages, c)) <=
                      Len(MessagesOf(sink.db.messages, c))
                /\ sink'.db.calls[c] = "completed" =>
                      sink'.db.endedAt[c] = sink.db.endedAt[c] ]_vars

(* --------------------------- session isolation ------------------------ *)

\* C21: a frame, model event, failure or termination handled for one session,
\* and a sink call made for its call, leave the CallState, sockets and
\* outputs of the other session and the transcript of the other call, in both
\* sinks, as they were.
C21_SessionIsolation ==
    [][ \A b \in SessionNames \ {iso'.last.session} :
          /\ iso'.worlds[b] = iso.worlds[b]
          /\ sink'.store[SidOf[b]] = sink.store[SidOf[b]]
          /\ sink'.db.calls[SidOf[b]] = sink.db.calls[SidOf[b]]
          /\ sink'.db.endedAt[SidOf[b]] = sink.db.endedAt[SidOf[b]]
          /\ MessagesOf(sink'.db.messages, SidOf[b]) =
                MessagesOf(sink.db.messages, SidOf[b]) ]_vars

\* A socket of session A failed while session B was playing a response.
C21_Witness ==
    /\ iso.last = [session |-> "A", kind |-> "gone"]
    /\ iso.worlds["A"].session.pendingEndCalls = 1
    /\ iso.worlds["B"].callState.callSid = "CA2"
    /\ iso.worlds["B"].callState.lastAssistantItemId = "abc"
    /\ iso.worlds["B"].session.twilioSocket = "open"
    /\ iso.worlds["B"].session.openaiSocket = "open"
    /\ iso.worlds["B"].session.pendingEndCalls = 0

(* ----------------------------- login sessions ------------------------- *)

\* C30: a validateSession that ends returns a user only if the session exists
\* and its expiry is not earlier than now; one that found an expired session
\* returns null and leaves the session deleted; one that found no session
\* returns null and leaves the table as it was; and a session deleted as
\* expired is never found again.
C30_ValidateSession ==
    [][ web'.auth.nDone = web.auth.nDone + 1 =>
          LET out == web'.auth.last
          IN  /\ out.result = "user" =>
                    /\ web.auth.sessions[out.id] # NoLogin
                    /\ web.auth.sessions[out.id].expiresAt >= web.auth.now
                    /\ out.user = web.auth.sessions[out.id].userId
              /\ (out.found # NoLogin /\ out.found.expiresAt < web.auth.now) =>
                    /\ out.result = "null"
                    /\ web'.auth.sessions[out.id] = NoLogin
              /\ out.found = NoLogin =>
                    /\ out.result = "null"
                    /\ web'.auth.sessions = web.auth.sessions
              /\ \A id \in web'.auth.expired :
                    web'.auth.sessions[id] = NoLogin ]_vars

(* ------------------------------ MCP sessions -------------------------- *)

\* C28: a POST /mcp request is served only with a valid OAuth session; a
\* served request that names an MCP session is handled by a server whose
\* tools act for the requester; transports and servers have the same keys,
\* the sessions initialized and not yet closed.
C28_McpSessionBinding ==
    LET m == web.mcp
    IN  /\ m.last.status = 200 =>
              /\ m.last.requester # NoUser
              /\ m.last.actsFor = m.last.requester
        /\ \A i \in McpIds :
              /\ m.transports[i] <=> m.servers[i] # Absent
              /\ m.transports[i] <=> i \in m.initialized \ m.closed

====
